---- MODULE Spec2Model ----
(***************************************************************************)
(* Model of the parallel-workload benchmark: the I/O runner (main.py, a    *)
(* thread pool fetching URLs), the CPU runner (cpu_main.py, a process pool *)
(* counting words) and the orchestrator (bench_workers.py, which runs a    *)
(* runner as a child process once per worker count).                       *)
(***************************************************************************)
EXTENDS Integers, Sequences, FiniteSets, TLC

\* ------------------------------------------------------------------ bounds
MaxUnits == 2      \* lines of a URL listing / files of a directory
MaxWorkers == 2    \* largest --workers, --min and --max value tried
MaxFetchMs == 1    \* largest time measured inside a runner (ms)
MaxRunMs == 2      \* largest time of a whole child run (ms)
MaxClock == 10     \* latest clock reading at which the poll loop is followed (0.1 s)

\* ------------------------------------------------------------- basic values
None == <<>>
Some(x) == <<x>>

Max(a, b) == IF a >= b THEN a ELSE b

\* Code points of the characters used, for str comparison (sort keys).
Ord(c) ==
    CASE c = " " -> 32
      [] c = "#" -> 35
      [] c = "A" -> 65
      [] c = "a" -> 97
      [] c = "b" -> 98
      [] c = "c" -> 99
      [] c = "n" -> 110
      [] c \in {".txt", ".TXT", ".md"} -> 46

\* Python str "<" : lexicographic by code point.
RECURSIVE StrLess(_, _)
StrLess(s, t) ==
    IF t = <<>> THEN FALSE
    ELSE IF s = <<>> THEN TRUE
    ELSE IF Ord(Head(s)) # Ord(Head(t)) THEN Ord(Head(s)) < Ord(Head(t))
    ELSE StrLess(Tail(s), Tail(t))

\* str.strip(): drop leading and trailing whitespace.
RECURSIVE LStrip(_)
LStrip(s) == IF s # <<>> /\ Head(s) = " " THEN LStrip(Tail(s)) ELSE s

RECURSIVE RStrip(_)
RStrip(s) ==
    IF s # <<>> /\ s[Len(s)] = " " THEN RStrip(SubSeq(s, 1, Len(s) - 1)) ELSE s

Strip(s) == RStrip(LStrip(s))

\* list.sort(key=...) is stable: the index i is inserted after every index
\* whose key is not greater.  keys[j] is the sort key of element j.
RECURSIVE InsertByKey(_, _, _)
InsertByKey(i, perm, keys) ==
    IF perm = <<>> THEN <<i>>
    ELSE IF StrLess(keys[i], keys[Head(perm)]) THEN <<i>> \o perm
    ELSE <<Head(perm)>> \o InsertByKey(i, Tail(perm), keys)

RECURSIVE SortPerm(_, _)
SortPerm(n, keys) ==
    IF n = 0 THEN <<>> ELSE InsertByKey(n, SortPerm(n - 1, keys), keys)

SortByKey(s, keys) ==
    LET perm == SortPerm(Len(s), keys) IN [i \in DOMAIN s |-> s[perm[i]]]

RECURSIVE SumSeq(_)
SumSeq(s) == IF s = <<>> THEN 0 ELSE Head(s) + SumSeq(Tail(s))

SeqsUpTo(S, n) == UNION {[1..k -> S] : k \in 0..n}

\* ------------------------------------------------------------------- state
VARIABLES
    script,       \* the entry point run: "main.py", "cpu_main.py", "bench_workers.py"
    input,        \* --input: lines of a URL listing, or a path of the file system;
                  \* for the orchestrator its arguments [min, max, quiet,
                  \* progress_interval]
    workers,      \* the pool size max(1, args.workers); the orchestrator's loop variable
    pc,           \* position of the main thread
    units,        \* urls / paths: the resolved input listing
    fut,          \* futures, in submission order: [st, net, val]
    results,      \* main.run: results
    per_file,     \* cpu_main.run: per_file
    total,        \* cpu_main.run: total, a Counter (insertion-ordered)
    out_file,     \* the document at --out
    exit_code,    \* the process exit status, None while running
    uncaught,     \* the exception that ended the process, None if none
    mode,         \* bench_workers: --mode
    workers_min,  \* bench_workers: workers_min
    workers_max,  \* bench_workers: workers_max
    children,     \* bench_workers: the child processes started so far, in
                  \* order: [workers, returncode], returncode None while alive
    perf_counter, \* bench_workers: time.perf_counter() - started (0.1 s)
    next_tick,    \* bench_workers: next_tick - started (0.1 s)
    heartbeats,   \* bench_workers: the "[bench] running" lines of the current
                  \* call of _run_script_with_progress: when each was printed
    out_dir,      \* bench_workers: worker count -> document at its out_path
    rows,         \* bench_workers: rows
    summary_out   \* bench_workers: the document at --summary-out

runner_vars == <<units, fut, results, per_file, total, out_file>>
poll_vars == <<perf_counter, next_tick, heartbeats>>
bench_vars ==
    <<mode, workers_min, workers_max, children, poll_vars, out_dir, rows, summary_out>>
vars == <<script, input, workers, pc, exit_code, uncaught, runner_vars, bench_vars>>

\* proc of _run_script_with_progress: the child started last.
proc == IF children = <<>> THEN None ELSE children[Len(children)]

Absent == [absent |-> TRUE]     \* no file at the path
Stale == [stale |-> TRUE]       \* a file left there before this run

\* ----------------------------------------------------- main.py: the fetch
\* What the network does to one request.
NetEvents ==
    {"response", "http_404", "conn_refused", "connect_timeout", "read_timeout",
     "bad_url"}

\* Markup of a response body, as the parser sees it: tags and data chunks.
Bodies ==
    { <<"<title>", "T", "</title>", "<p>", "w", " ", "w">>,
      <<"<p>", "w">> }

\* Python exception classes raised by a fetch, with their base classes.
Bases(cls) ==
    CASE cls = "HTTPError"    -> {"HTTPError", "URLError", "OSError", "Exception"}
      [] cls = "URLError"     -> {"URLError", "OSError", "Exception"}
      [] cls = "TimeoutError" -> {"TimeoutError", "OSError", "Exception"}
      [] cls = "ValueError"   -> {"ValueError", "Exception"}

\* urlopen(req, timeout) followed by resp.read(): the response, or the
\* exception raised.  urllib wraps an OSError of the connect/send phase in
\* URLError; a timeout while the response is read is raised unwrapped.
urlopen(net, body) ==
    CASE net = "response"        -> [raised |-> None, status |-> Some(200), raw |-> body]
      [] net = "http_404"        -> [raised |-> Some("HTTPError"), code |-> 404]
      [] net = "conn_refused"    -> [raised |-> Some("URLError"), reason |-> "refused"]
      [] net = "connect_timeout" -> [raised |-> Some("URLError"), reason |-> "timed out"]
      [] net = "read_timeout"    -> [raised |-> Some("TimeoutError"), reason |-> "timed out"]
      [] net = "bad_url"         -> [raised |-> Some("ValueError"), reason |-> "unknown url type"]

\* _TextExtractor: the title is the first non-blank data chunk inside <title>.
RECURSIVE ParseTitle(_, _)
ParseTitle(html, in_title) ==
    IF html = <<>> THEN None
    ELSE IF Head(html) = "<title>" THEN ParseTitle(Tail(html), TRUE)
    ELSE IF Head(html) = "</title>" THEN ParseTitle(Tail(html), FALSE)
    ELSE IF Head(html) = "<p>" THEN ParseTitle(Tail(html), in_title)
    ELSE IF in_title /\ Head(html) # " " THEN Some(Head(html))
    ELSE ParseTitle(Tail(html), in_title)

\* _count_words(parser.get_text()): every non-blank data chunk is one word.
RECURSIVE _count_words(_)
_count_words(html) ==
    IF html = <<>> THEN 0
    ELSE (IF Head(html) \in {"<title>", "</title>", "<p>", " "} THEN 0 ELSE 1)
         + _count_words(Tail(html))

\* str(e.code) in the error text
CodeStr(code) == CASE code = 404 -> "404" [] OTHER -> "?"

FetchFailure(url, status, ms, error) ==
    [url |-> url, ok |-> FALSE, status |-> status, elapsed_ms |-> ms,
     title |-> None, word_count |-> None, error |-> Some(error)]

\* fetch_and_analyze without its last clause, "except Exception": what is
\* neither an HTTPError nor a URLError escapes the worker.
fetch_and_analyze_NoCatchAll(url, net, body, ms) ==
    LET r == urlopen(net, body) IN
    IF r.raised = None THEN
        [url |-> url, ok |-> TRUE, status |-> r.status, elapsed_ms |-> ms,
         title |-> ParseTitle(r.raw, FALSE),
         word_count |-> Some(_count_words(r.raw)), error |-> None]
    ELSE IF "HTTPError" \in Bases(r.raised[1]) THEN
        FetchFailure(url, Some(r.code), ms, <<"HTTPError", CodeStr(r.code)>>)
    ELSE IF "URLError" \in Bases(r.raised[1]) THEN
        FetchFailure(url, None, ms, <<"URLError", r.reason>>)
    ELSE
        [raised |-> r.raised[1]]

\* fetch_and_analyze with "except URLError" tried before "except HTTPError":
\* HTTPError is a subclass of URLError and is caught by the first clause.
fetch_and_analyze_URLErrorFirst(url, net, body, ms) ==
    LET r == urlopen(net, body) IN
    IF r.raised = None THEN
        [url |-> url, ok |-> TRUE, status |-> r.status, elapsed_ms |-> ms,
         title |-> ParseTitle(r.raw, FALSE),
         word_count |-> Some(_count_words(r.raw)), error |-> None]
    ELSE IF "URLError" \in Bases(r.raised[1]) THEN
        FetchFailure(url, None, ms,
                     <<"URLError", IF "reason" \in DOMAIN r THEN r.reason ELSE "Not Found">>)
    ELSE
        FetchFailure(url, None, ms, <<"Exception", r.raised[1]>>)

\* The except clauses of fetch_and_analyze, tried in order.
fetch_and_analyze(url, net, body, ms) ==
    LET r == urlopen(net, body) IN
    IF r.raised = None THEN
        [url |-> url, ok |-> TRUE, status |-> r.status, elapsed_ms |-> ms,
         title |-> ParseTitle(r.raw, FALSE),
         word_count |-> Some(_count_words(r.raw)), error |-> None]
    ELSE IF "HTTPError" \in Bases(r.raised[1]) THEN
        FetchFailure(url, Some(r.code), ms, <<"HTTPError", CodeStr(r.code)>>)
    ELSE IF "URLError" \in Bases(r.raised[1]) THEN
        FetchFailure(url, None, ms, <<"URLError", r.reason>>)
    ELSE
        FetchFailure(url, None, ms, <<"Exception", r.raised[1]>>)

\* ------------------------------------------------- main.py: input listing
Lines == { <<" ">>, <<"#", "a">>, <<"b">>, <<" ", "a">> }

Ignored(line) == LET s == Strip(line) IN s = <<>> \/ Head(s) = "#"

RECURSIVE read_urls(_)
read_urls(lines) ==
    IF lines = <<>> THEN <<>>
    ELSE (IF Ignored(Head(lines)) THEN <<>> ELSE <<Strip(Head(lines))>>)
         \o read_urls(Tail(lines))

\* ------------------------------------------------------- the executor pool
Pending == {i \in DOMAIN fut : fut[i].st = "pending"}
Running == {i \in DOMAIN fut : fut[i].st = "running"}
PoolAlive == pc \in {"submit", "collect", "abort"}

NewFuture == [st |-> "pending", net |-> None, val |-> None]

\* run submitting every unit twice.
Submit_Twice ==
    /\ pc = "submit"
    /\ Len(fut) < 2 * Len(units)
    /\ fut' = fut \o <<NewFuture, NewFuture>>
    /\ pc' = IF Len(fut) + 2 = 2 * Len(units) THEN "collect" ELSE "submit"
    /\ UNCHANGED <<script, input, workers, exit_code, uncaught, bench_vars>>
    /\ UNCHANGED <<units, results, per_file, total, out_file>>

\* ex.submit(fn, unit): one future per unit, in listing order.
Submit ==
    /\ pc = "submit"
    /\ Len(fut) < Len(units)
    /\ fut' = Append(fut, NewFuture)
    /\ pc' = IF Len(fut) + 1 = Len(units) THEN "collect" ELSE "submit"
    /\ UNCHANGED <<script, input, workers, exit_code, uncaught, bench_vars>>
    /\ UNCHANGED <<units, results, per_file, total, out_file>>

\* A pool that starts a queued task whether or not a worker is free.
WorkerStart_Unbounded ==
    /\ PoolAlive
    /\ Pending # {}
    /\ LET i == CHOOSE j \in Pending : \A k \in Pending : j <= k IN
       fut' = [fut EXCEPT ![i].st = "running"]
    /\ UNCHANGED <<script, input, workers, pc, exit_code, uncaught, bench_vars>>
    /\ UNCHANGED <<units, results, per_file, total, out_file>>

\* A free worker takes the oldest queued task (the work queue is FIFO).
WorkerStart ==
    /\ PoolAlive
    /\ Pending # {}
    /\ Cardinality(Running) < workers
    /\ LET i == CHOOSE j \in Pending : \A k \in Pending : j <= k IN
       fut' = [fut EXCEPT ![i].st = "running"]
    /\ UNCHANGED <<script, input, workers, pc, exit_code, uncaught, bench_vars>>
    /\ UNCHANGED <<units, results, per_file, total, out_file>>

\* ------------------------------------------------------ main.py: run, main
\* main without "if not urls: return 2": an empty listing is run like any.
MainStart_NoEmptyCheck ==
    /\ script = "main.py"
    /\ pc = "start"
    /\ units' = read_urls(input)
    /\ pc' = IF units' = <<>> THEN "collect" ELSE "submit"
    /\ exit_code' = None
    /\ UNCHANGED <<script, input, workers, uncaught, bench_vars>>
    /\ UNCHANGED <<fut, results, per_file, total, out_file>>

MainStart ==
    /\ script = "main.py"
    /\ pc = "start"
    /\ units' = read_urls(input)
    /\ IF units' = <<>>
       THEN pc' = "exit" /\ exit_code' = Some(2)
       ELSE pc' = "submit" /\ exit_code' = None
    /\ UNCHANGED <<script, input, workers, uncaught, bench_vars>>
    /\ UNCHANGED <<fut, results, per_file, total, out_file>>

\* A worker thread that appends its result to the shared list itself.
FetchDone_WorkerAppends(i) ==
    /\ script = "main.py"
    /\ PoolAlive
    /\ i \in Running
    /\ \E net \in NetEvents, body \in Bodies, ms \in 1..MaxFetchMs :
         /\ net # "response" => body = CHOOSE b \in Bodies : TRUE
         /\ fut' = [fut EXCEPT ![i] =
                      [st |-> "finished", net |-> Some(net),
                       val |-> fetch_and_analyze(units[i], net, body, ms)]]
         /\ results' = Append(results, fetch_and_analyze(units[i], net, body, ms))
    /\ UNCHANGED <<script, input, workers, pc, exit_code, uncaught, bench_vars>>
    /\ UNCHANGED <<units, per_file, total, out_file>>

\* A worker thread returns from fetch_and_analyze(url, timeout_s).
FetchDone(i) ==
    /\ script = "main.py"
    /\ PoolAlive
    /\ i \in Running
    /\ \E net \in NetEvents, body \in Bodies, ms \in 1..MaxFetchMs :
         /\ net # "response" => body = CHOOSE b \in Bodies : TRUE
         /\ fut' = [fut EXCEPT ![i] =
                      [st |-> "finished", net |-> Some(net),
                       val |-> fetch_and_analyze(units[i], net, body, ms)]]
    /\ UNCHANGED <<script, input, workers, pc, exit_code, uncaught, bench_vars>>
    /\ UNCHANGED <<units, results, per_file, total, out_file>>

\* for fut in as_completed(futures): results.append(fut.result())
\* (fut.result() would re-raise an error that escaped the worker's function)
MainCollect(i) ==
    /\ script = "main.py"
    /\ pc = "collect"
    /\ i \in DOMAIN fut
    /\ fut[i].st = "finished"
    /\ fut' = [fut EXCEPT ![i].st = "yielded"]
    /\ IF "raised" \in DOMAIN fut[i].val
       THEN pc' = "abort" /\ uncaught' = Some(fut[i].val.raised) /\ results' = results
       ELSE pc' = pc /\ uncaught' = uncaught /\ results' = Append(results, fut[i].val)
    /\ UNCHANGED <<script, input, workers, exit_code, bench_vars>>
    /\ UNCHANGED <<units, per_file, total, out_file>>

\* run without "results.sort(key=lambda r: r.url)".
MainRunReturn_NoSort ==
    /\ script = "main.py"
    /\ pc = "collect"
    /\ \A i \in DOMAIN fut : fut[i].st = "yielded"
    /\ results' = results
    /\ pc' = "returned"
    /\ UNCHANGED <<script, input, workers, exit_code, uncaught, bench_vars>>
    /\ UNCHANGED <<units, fut, per_file, total, out_file>>

\* The loop is exhausted: the pool shuts down, the list is sorted and returned.
MainRunReturn ==
    /\ script = "main.py"
    /\ pc = "collect"
    /\ \A i \in DOMAIN fut : fut[i].st = "yielded"
    /\ results' = SortByKey(results, [i \in DOMAIN results |-> results[i].url])
    /\ pc' = "returned"
    /\ UNCHANGED <<script, input, workers, exit_code, uncaught, bench_vars>>
    /\ UNCHANGED <<units, fut, per_file, total, out_file>>

CountOk(rs) == Cardinality({i \in DOMAIN rs : rs[i].ok})

\* main's payload with the failures counted as the results without a status.
MainPayload_FailedByStatus(rs, w, total_ms) ==
    [meta |-> [workers |-> w,
               total_urls |-> Len(rs),
               ok |-> CountOk(rs),
               failed |-> Cardinality({i \in DOMAIN rs : rs[i].status = None}),
               total_elapsed_ms |-> total_ms,
               avg_elapsed_ms |->
                   SumSeq([i \in DOMAIN rs |-> rs[i].elapsed_ms]) \div Max(1, Len(rs))],
     results |-> rs]

MainPayload(rs, w, total_ms) ==
    [meta |-> [workers |-> w,
               total_urls |-> Len(rs),
               ok |-> CountOk(rs),
               failed |-> Len(rs) - CountOk(rs),
               total_elapsed_ms |-> total_ms,
               avg_elapsed_ms |->
                   SumSeq([i \in DOMAIN rs |-> rs[i].elapsed_ms]) \div Max(1, Len(rs))],
     results |-> rs]

\* main returning 1 when a fetch failed, instead of "return 0".
MainWrite_NonZeroOnFailure ==
    /\ script = "main.py"
    /\ pc = "returned"
    /\ \E total_ms \in 1..MaxFetchMs :
         out_file' = MainPayload(results, workers, total_ms)
    /\ exit_code' = IF CountOk(results) < Len(results) THEN Some(1) ELSE Some(0)
    /\ pc' = "exit"
    /\ UNCHANGED <<script, input, workers, uncaught, bench_vars>>
    /\ UNCHANGED <<units, fut, results, per_file, total>>

MainWrite ==
    /\ script = "main.py"
    /\ pc = "returned"
    /\ \E total_ms \in 1..MaxFetchMs :
         out_file' = MainPayload(results, workers, total_ms)
    /\ exit_code' = Some(0)
    /\ pc' = "exit"
    /\ UNCHANGED <<script, input, workers, uncaught, bench_vars>>
    /\ UNCHANGED <<units, fut, results, per_file, total>>

\* ------------------------------------------- cpu_main.py: the tokenizer
\* str.lower() on the characters used.
Lower(c) == CASE c = "A" -> "a" [] c = "B" -> "b" [] OTHER -> c

WordChar(c) == c \in {"a", "b", "c", "A", "B"}

\* _WORD_RE.findall(text): the maximal runs of word characters, in order.
\* cur is the run being read.
RECURSIVE FindWords(_, _)
FindWords(text, cur) ==
    IF text = <<>> THEN (IF cur = <<>> THEN <<>> ELSE <<cur>>)
    ELSE IF WordChar(Head(text)) THEN FindWords(Tail(text), Append(cur, Head(text)))
    ELSE (IF cur = <<>> THEN <<>> ELSE <<cur>>) \o FindWords(Tail(text), <<>>)

\* A Counter / dict is insertion-ordered: a sequence of <<key, count>>.
Keys(c) == {c[i][1] : i \in DOMAIN c}
Get(c, k) ==
    IF k \in Keys(c) THEN (CHOOSE i \in DOMAIN c : c[i][1] = k) ELSE 0
Count(c, k) == IF Get(c, k) = 0 THEN 0 ELSE c[Get(c, k)][2]

\* c[k] += n: an old key keeps its place, a new key goes last.
Add(c, k, n) ==
    IF k \in Keys(c)
    THEN [i \in DOMAIN c |-> IF c[i][1] = k THEN <<k, c[i][2] + n>> ELSE c[i]]
    ELSE Append(c, <<k, n>>)

\* Counter(tokens)
RECURSIVE CounterOf(_, _)
CounterOf(tokens, c) ==
    IF tokens = <<>> THEN c
    ELSE CounterOf(Tail(tokens), Add(c, Head(tokens), 1))

\* A file on disk: readable text, or one whose open() fails.
Unreadable == [readable |-> FALSE, text |-> <<>>]
Text(t) == [readable |-> TRUE, text |-> t]

count_words_in_file(path, file) ==
    IF ~file.readable THEN [raised |-> "PermissionError"]
    ELSE LET tokens == FindWords([i \in DOMAIN file.text |-> Lower(file.text[i])], <<>>)
         IN [path |-> path, tokens |-> Len(tokens), counts |-> CounterOf(tokens, <<>>)]

\* dict.update instead of Counter.update: a count replaces the old one.
RECURSIVE _merge_counts_Overwrite(_, _)
_merge_counts_Overwrite(tot, partial) ==
    IF partial = <<>> THEN tot
    ELSE _merge_counts_Overwrite(
             Add(tot, Head(partial)[1], Head(partial)[2] - Count(tot, Head(partial)[1])),
             Tail(partial))

\* setdefault instead of update: the first count of a token is kept.
RECURSIVE _merge_counts_KeepFirst(_, _)
_merge_counts_KeepFirst(tot, partial) ==
    IF partial = <<>> THEN tot
    ELSE _merge_counts_KeepFirst(
             IF Head(partial)[1] \in Keys(tot) THEN tot
             ELSE Add(tot, Head(partial)[1], Head(partial)[2]),
             Tail(partial))

\* total.update(partial)
RECURSIVE _merge_counts(_, _)
_merge_counts(tot, partial) ==
    IF partial = <<>> THEN tot
    ELSE _merge_counts(Add(tot, Head(partial)[1], Head(partial)[2]), Tail(partial))

\* --------------------------------------------- cpu_main.py: input listing
\* Paths: a one-letter stem and an extension.
Names == { <<"a", ".txt">>, <<"b", ".TXT">>, <<"c", ".txt">>, <<"n", ".md">> }

Texts == { <<"a", " ", "b", " ", "a">>, <<"B", " ", "c">>, <<"c", "c", " ", " ", "a">> }

Files == {Text(t) : t \in Texts} \cup {Unreadable}

IsTxt(name) == name[Len(name)] \in {".txt", ".TXT"}

\* A directory as os.walk lists it (in no particular order), or a single file.
Dirs ==
    { [kind |-> "dir", walk |-> w, content |-> c] :
        w \in {x \in SeqsUpTo(Names, MaxUnits) :
                 \A i, j \in DOMAIN x : i # j => x[i] # x[j]},
        c \in [Names -> Files] }

DirInputs ==
    { d \in Dirs : \A n \in Names :
        (\A i \in DOMAIN d.walk : d.walk[i] # n) => d.content[n] = Unreadable }

FileInputs ==
    { [kind |-> "file", walk |-> <<n>>, content |-> [m \in Names |-> IF m = n THEN f ELSE Unreadable]] :
        n \in {<<"n", ".md">>}, f \in Files }

RECURSIVE SelectTxt(_)
SelectTxt(walk) ==
    IF walk = <<>> THEN <<>>
    ELSE (IF IsTxt(Head(walk)) THEN <<Head(walk)>> ELSE <<>>) \o SelectTxt(Tail(walk))

_iter_text_files(in) ==
    IF in.kind = "file" THEN in.walk
    ELSE LET paths == SelectTxt(in.walk) IN SortByKey(paths, paths)

\* -------------------------------------------------- cpu_main.py: run, main
CpuStart ==
    /\ script = "cpu_main.py"
    /\ pc = "start"
    /\ units' = _iter_text_files(input)
    /\ IF units' = <<>>
       THEN pc' = "exit" /\ exit_code' = Some(2)
       ELSE pc' = "submit" /\ exit_code' = None
    /\ UNCHANGED <<script, input, workers, uncaught, bench_vars>>
    /\ UNCHANGED <<fut, results, per_file, total, out_file>>

\* A worker process returns from count_words_in_file(path), or raises.
CountDone(i) ==
    /\ script = "cpu_main.py"
    /\ PoolAlive
    /\ i \in Running
    /\ fut' = [fut EXCEPT ![i] =
                 [st |-> "finished", net |-> None,
                  val |-> count_words_in_file(units[i], input.content[units[i]])]]
    /\ UNCHANGED <<script, input, workers, pc, exit_code, uncaught, bench_vars>>
    /\ UNCHANGED <<units, results, per_file, total, out_file>>

\* for fut in as_completed(futures): fc = fut.result(); per_file.append(fc);
\* _merge_counts(total, fc.counts).  fut.result() re-raises the worker's error.
CpuCollect(i) ==
    /\ script = "cpu_main.py"
    /\ pc = "collect"
    /\ i \in DOMAIN fut
    /\ fut[i].st = "finished"
    /\ fut' = [fut EXCEPT ![i].st = "yielded"]
    /\ IF "raised" \in DOMAIN fut[i].val
       THEN /\ pc' = "abort"
            /\ uncaught' = Some(fut[i].val.raised)
            /\ UNCHANGED <<per_file, total>>
       ELSE /\ pc' = pc
            /\ uncaught' = uncaught
            /\ per_file' = Append(per_file, fut[i].val)
            /\ total' = _merge_counts(total, fut[i].val.counts)
    /\ UNCHANGED <<script, input, workers, exit_code, bench_vars>>
    /\ UNCHANGED <<units, results, out_file>>

\* The loop is exhausted: the pool shuts down, per_file is sorted by path.
CpuRunReturn ==
    /\ script = "cpu_main.py"
    /\ pc = "collect"
    /\ \A i \in DOMAIN fut : fut[i].st = "yielded"
    /\ per_file' = SortByKey(per_file, [i \in DOMAIN per_file |-> per_file[i].path])
    /\ pc' = "returned"
    /\ UNCHANGED <<script, input, workers, exit_code, uncaught, bench_vars>>
    /\ UNCHANGED <<units, fut, results, total, out_file>>

\* The error leaves the with block once shutdown(wait=True) has let every
\* queued and running task end; nothing catches it and the process dies.
CpuRaise ==
    /\ script = "cpu_main.py"
    /\ pc = "abort"
    /\ Pending = {}
    /\ Running = {}
    /\ pc' = "exit"
    /\ exit_code' = Some(1)
    /\ UNCHANGED <<script, input, workers, uncaught, bench_vars, runner_vars>>

\* Counter.most_common(n): by descending count, equal counts in table order.
RECURSIVE InsertByCount(_, _)
InsertByCount(x, s) ==
    IF s = <<>> THEN <<x>>
    ELSE IF x[2] > Head(s)[2] THEN <<x>> \o s
    ELSE <<Head(s)>> \o InsertByCount(x, Tail(s))

RECURSIVE SortByCount(_)
SortByCount(c) ==
    IF c = <<>> THEN <<>>
    ELSE InsertByCount(c[Len(c)], SortByCount(SubSeq(c, 1, Len(c) - 1)))

\* most_common breaking ties the other way: equal counts in reverse table
\* order.
most_common_LastTieFirst(c, n) ==
    SubSeq(SortByCount([i \in DOMAIN c |-> c[Len(c) + 1 - i]]),
           1, IF n < Len(c) THEN n ELSE Len(c))

most_common(c, n) == SubSeq(SortByCount(c), 1, IF n < Len(c) THEN n ELSE Len(c))

CpuPayload(pf, tot, w, top, total_ms) ==
    [meta |-> [mode |-> "cpu-process-pool",
               workers |-> w,
               files |-> Len(pf),
               total_tokens |-> SumSeq([i \in DOMAIN pf |-> pf[i].tokens]),
               unique_tokens |-> Len(tot),
               total_elapsed_ms |-> total_ms],
     top_words |-> most_common(tot, Max(1, top)),
     per_file |-> [i \in DOMAIN pf |-> [path |-> pf[i].path, tokens |-> pf[i].tokens]]]

CpuWrite ==
    /\ script = "cpu_main.py"
    /\ pc = "returned"
    /\ \E total_ms \in 1..MaxFetchMs, top \in {0, 2} :
         out_file' = CpuPayload(per_file, total, workers, top, total_ms)
    /\ exit_code' = Some(0)
    /\ pc' = "exit"
    /\ UNCHANGED <<script, input, workers, uncaught, bench_vars>>
    /\ UNCHANGED <<units, fut, results, per_file, total>>

\* ----------------------------------------- bench_workers.py: documents
\* A file that is not JSON, JSON that is no object, and a JSON object.
Garbage == [json |-> "invalid"]
ArrayDoc == [json |-> "array"]
ObjDoc(d) == [json |-> "object", data |-> d]

\* The value under "meta": a dict, or something else (a list).
Dict(d) == [t |-> "dict", v |-> d]
NotDict == [t |-> "list"]

\* The meta a runner writes for a run that took e ms.
RunMeta(m, w, e) ==
    IF m = "cpu"
    THEN [mode |-> 0, workers |-> w, files |-> 2, total_tokens |-> 5,
          unique_tokens |-> 3, total_elapsed_ms |-> e]
    ELSE [workers |-> w, timeout_s |-> 10, total_urls |-> 2, ok |-> 1, failed |-> 1,
          total_elapsed_ms |-> e, avg_elapsed_ms |-> 1]

\* What a child that exits 0 may leave at its out_path.
ChildDocs(m, w) ==
    {ObjDoc([meta |-> Dict(RunMeta(m, w, e))]) : e \in 0..MaxRunMs}
    \cup {ObjDoc([meta |-> Dict([total_elapsed_ms |-> 1])]),
          ObjDoc([meta |-> NotDict]),
          ObjDoc([payload |-> 0]),
          ArrayDoc, Garbage, Absent}

_load_json(doc) ==
    IF doc = Absent THEN [raised |-> "FileNotFoundError"]
    ELSE IF doc.json = "invalid" THEN [raised |-> "JSONDecodeError"]
    ELSE IF doc.json # "object" THEN [raised |-> "ValueError"]
    ELSE [data |-> doc.data]

\* meta = payload.get("meta", {}) if isinstance(payload.get("meta"), dict) else {}
MetaOf(payload) ==
    IF "meta" \in DOMAIN payload /\ payload.meta.t = "dict" THEN payload.meta.v
    ELSE <<>>

\* int(meta.get(key, default) or default)
MetaInt(meta, key, default) ==
    LET x == IF key \in DOMAIN meta THEN meta[key] ELSE default
    IN IF x = 0 THEN default ELSE x

CpuRow(payload, w, wall_ms) ==
    LET meta == MetaOf(payload) IN
    [workers |-> w,
     elapsed_ms |-> MetaInt(meta, "total_elapsed_ms", wall_ms),
     files |-> MetaInt(meta, "files", 0),
     total_tokens |-> MetaInt(meta, "total_tokens", 0),
     unique_tokens |-> MetaInt(meta, "unique_tokens", 0)]

CrawlerRow(payload, w, wall_ms) ==
    LET meta == MetaOf(payload) IN
    [workers |-> w,
     elapsed_ms |-> MetaInt(meta, "total_elapsed_ms", wall_ms),
     urls |-> MetaInt(meta, "total_urls", 0),
     ok |-> MetaInt(meta, "ok", 0),
     failed |-> MetaInt(meta, "failed", 0),
     avg_per_url_ms |-> MetaInt(meta, "avg_elapsed_ms", 0)]

\* float(base_ms) / r.elapsed_ms, kept as the fraction <<base_ms, elapsed_ms>>.
Speedup(base_ms, elapsed_ms) ==
    IF base_ms # 0 /\ elapsed_ms # 0 THEN Some(<<base_ms, elapsed_ms>>) ELSE None

\* int(n / max(0.001, elapsed_ms / 1000))
PerSecond(n, elapsed_ms) == (n * 1000) \div Max(1, elapsed_ms)

BaseMs(rs) == IF rs # <<>> THEN rs[1].elapsed_ms ELSE 0

SummaryRow(m, r, base_ms) ==
    IF m = "cpu"
    THEN [workers |-> r.workers, elapsed_ms |-> r.elapsed_ms, files |-> r.files,
          total_tokens |-> r.total_tokens, unique_tokens |-> r.unique_tokens,
          tok_per_s |-> PerSecond(r.total_tokens, r.elapsed_ms),
          speedup_vs_1 |-> Speedup(base_ms, r.elapsed_ms)]
    ELSE [workers |-> r.workers, elapsed_ms |-> r.elapsed_ms, urls |-> r.urls,
          ok |-> r.ok, failed |-> r.failed, avg_per_url_ms |-> r.avg_per_url_ms,
          urls_per_s |-> IF r.elapsed_ms # 0
                         THEN Some(PerSecond(r.urls, r.elapsed_ms)) ELSE None,
          speedup_vs_1 |-> Speedup(base_ms, r.elapsed_ms)]

Summary(m, in, wmin, wmax, rs) ==
    [meta |-> [mode |-> m, workers_min |-> wmin, workers_max |-> wmax],
     rows |-> [i \in DOMAIN rs |-> SummaryRow(m, rs[i], BaseMs(rs))]]

\* ------------------------------------------- bench_workers.py: the sweep
\* Times of _run_script_with_progress are counted in ticks of 0.1 s.
SleepTicks == 2           \* time.sleep(0.2)
MinIntervalTicks == 5     \* max(0.5, float(progress_interval_s))

\* The --progress-interval values tried: 0 s and 0.7 s.
ProgressIntervals == {0, 7}

\* progress = not bool(args.quiet)
progress == ~input.quiet

\* interval = max(0.5, float(progress_interval_s))
interval == Max(MinIntervalTicks, input.progress_interval)

\* main with workers_max = int(args.max), not clamped to workers_min.
BenchStart_NoMaxClamp ==
    /\ script = "bench_workers.py"
    /\ pc = "start"
    /\ workers_min' = Max(1, input.min)
    /\ workers_max' = input.max
    /\ workers' = workers_min'
    /\ pc' = "launch"
    /\ UNCHANGED <<script, input, exit_code, uncaught, runner_vars>>
    /\ UNCHANGED <<mode, children, poll_vars, out_dir, rows, summary_out>>

\* main: the clamped range; the loop of _bench_cpu / _bench_crawler starts.
BenchStart ==
    /\ script = "bench_workers.py"
    /\ pc = "start"
    /\ workers_min' = Max(1, input.min)
    /\ workers_max' = Max(workers_min', input.max)
    /\ workers' = workers_min'
    /\ pc' = "launch"
    /\ UNCHANGED <<script, input, exit_code, uncaught, runner_vars>>
    /\ UNCHANGED <<mode, children, poll_vars, out_dir, rows, summary_out>>

\* _run_script_with_progress: started = time.perf_counter();
\* proc = subprocess.Popen(cmd); next_tick = started + interval
BenchLaunch ==
    /\ script = "bench_workers.py"
    /\ pc = "launch"
    /\ children' = Append(children, [workers |-> workers, returncode |-> None])
    /\ perf_counter' = 0
    /\ next_tick' = interval
    /\ heartbeats' = <<>>
    /\ pc' = "poll"
    /\ UNCHANGED <<script, input, workers, exit_code, uncaught, runner_vars>>
    /\ UNCHANGED <<mode, workers_min, workers_max, out_dir, rows, summary_out>>

\* A child process ends: with 2 on an empty listing, with 1 on an uncaught
\* error, with 0 after writing its document (or whatever it left there).
ChildExit ==
    /\ script = "bench_workers.py"
    /\ \E i \in DOMAIN children, rc \in {0, 1, 2} :
         /\ children[i].returncode = None
         /\ children' = [children EXCEPT ![i].returncode = Some(rc)]
         /\ IF rc = 0
            THEN \E doc \in ChildDocs(mode, children[i].workers) :
                    out_dir' = [out_dir EXCEPT ![children[i].workers] = doc]
            ELSE out_dir' = out_dir
    /\ UNCHANGED <<script, input, workers, pc, exit_code, uncaught, runner_vars>>
    /\ UNCHANGED <<mode, workers_min, workers_max, poll_vars, rows, summary_out>>

\* The loop with "next_tick = next_tick + interval" after a heartbeat: the
\* ticks at a fixed rate, whatever the time of the heartbeat was.
BenchPoll_FixedRateTick ==
    /\ script = "bench_workers.py"
    /\ pc = "poll"
    /\ proc.returncode = None
    /\ perf_counter <= MaxClock
    /\ IF progress /\ perf_counter >= next_tick
       THEN /\ heartbeats' = Append(heartbeats, perf_counter)
            /\ next_tick' = next_tick + interval
       ELSE UNCHANGED <<heartbeats, next_tick>>
    /\ \E late \in 0..1 : perf_counter' = perf_counter + SleepTicks + late
    /\ UNCHANGED <<script, input, workers, pc, exit_code, uncaught, runner_vars>>
    /\ UNCHANGED <<mode, workers_min, workers_max, children, out_dir, rows, summary_out>>

\* One turn of the while loop with the child alive: proc.poll() is None;
\* now = time.perf_counter(); the heartbeat if it is due; time.sleep(0.2),
\* which may take longer than asked.
BenchPoll ==
    /\ script = "bench_workers.py"
    /\ pc = "poll"
    /\ proc.returncode = None
    /\ perf_counter <= MaxClock
    /\ IF progress /\ perf_counter >= next_tick
       THEN /\ heartbeats' = Append(heartbeats, perf_counter)
            /\ next_tick' = perf_counter + interval
       ELSE UNCHANGED <<heartbeats, next_tick>>
    /\ \E late \in 0..1 : perf_counter' = perf_counter + SleepTicks + late
    /\ UNCHANGED <<script, input, workers, pc, exit_code, uncaught, runner_vars>>
    /\ UNCHANGED <<mode, workers_min, workers_max, children, out_dir, rows, summary_out>>

\* _run_script_with_progress without "if proc.returncode != 0: raise".
BenchPollExit_IgnoreStatus ==
    /\ script = "bench_workers.py"
    /\ pc = "poll"
    /\ proc.returncode # None
    /\ pc' = "load"
    /\ perf_counter' = 0
    /\ next_tick' = 0
    /\ heartbeats' = <<>>
    /\ UNCHANGED <<uncaught, exit_code>>
    /\ UNCHANGED <<script, input, workers, runner_vars>>
    /\ UNCHANGED <<mode, workers_min, workers_max, children, out_dir, rows, summary_out>>

\* The loop leaving only on "rc == 0": another exit status is polled again.
BenchPollExit_WaitForZero ==
    /\ script = "bench_workers.py"
    /\ pc = "poll"
    /\ proc.returncode = Some(0)
    /\ pc' = "load"
    /\ perf_counter' = 0
    /\ next_tick' = 0
    /\ heartbeats' = <<>>
    /\ UNCHANGED <<uncaught, exit_code>>
    /\ UNCHANGED <<script, input, workers, runner_vars>>
    /\ UNCHANGED <<mode, workers_min, workers_max, children, out_dir, rows, summary_out>>

\* proc.poll() returns the exit status: the loop ends and the call is over;
\* a non-zero status raises SystemExit(message), which ends the
\* orchestrator with status 1.
BenchPollExit ==
    /\ script = "bench_workers.py"
    /\ pc = "poll"
    /\ proc.returncode # None
    /\ IF proc.returncode # Some(0)
       THEN pc' = "exit" /\ uncaught' = Some("SystemExit") /\ exit_code' = Some(1)
       ELSE pc' = "load" /\ UNCHANGED <<uncaught, exit_code>>
    /\ perf_counter' = 0
    /\ next_tick' = 0
    /\ heartbeats' = <<>>
    /\ UNCHANGED <<script, input, workers, runner_vars>>
    /\ UNCHANGED <<mode, workers_min, workers_max, children, out_dir, rows, summary_out>>

\* The loop of _bench_cpu going on to the next worker count when the
\* document cannot be loaded, without a row.
BenchLoad_IgnoreLoadError ==
    /\ script = "bench_workers.py"
    /\ pc = "load"
    /\ LET loaded == _load_json(out_dir[workers]) IN
       IF "raised" \in DOMAIN loaded
       THEN rows' = rows
       ELSE \E wall_ms \in 1..MaxRunMs :
               rows' = Append(rows,
                              IF mode = "cpu"
                              THEN CpuRow(loaded.data, workers, wall_ms)
                              ELSE CrawlerRow(loaded.data, workers, wall_ms))
    /\ IF workers < workers_max
       THEN pc' = "launch" /\ workers' = workers + 1
       ELSE pc' = "summarize" /\ workers' = workers
    /\ UNCHANGED <<uncaught, exit_code>>
    /\ UNCHANGED <<script, input, runner_vars>>
    /\ UNCHANGED <<mode, workers_min, workers_max, children, poll_vars, out_dir, summary_out>>

\* payload = _load_json(out_path) ... rows.append(Row(...)); next worker count.
BenchLoad ==
    /\ script = "bench_workers.py"
    /\ pc = "load"
    /\ LET loaded == _load_json(out_dir[workers]) IN
       IF "raised" \in DOMAIN loaded
       THEN /\ pc' = "exit"
            /\ uncaught' = Some(loaded.raised)
            /\ exit_code' = Some(1)
            /\ UNCHANGED <<rows, workers>>
       ELSE /\ \E wall_ms \in 1..MaxRunMs :
                 rows' = Append(rows,
                                IF mode = "cpu"
                                THEN CpuRow(loaded.data, workers, wall_ms)
                                ELSE CrawlerRow(loaded.data, workers, wall_ms))
            /\ IF workers < workers_max
               THEN pc' = "launch" /\ workers' = workers + 1
               ELSE pc' = "summarize" /\ workers' = workers
            /\ UNCHANGED <<uncaught, exit_code>>
    /\ UNCHANGED <<script, input, runner_vars>>
    /\ UNCHANGED <<mode, workers_min, workers_max, children, poll_vars, out_dir, summary_out>>

\* main after the sweep: _write_summary(summary_out, summary); return 0
BenchSummary ==
    /\ script = "bench_workers.py"
    /\ pc = "summarize"
    /\ summary_out' = Summary(mode, input, workers_min, workers_max, rows)
    /\ exit_code' = Some(0)
    /\ pc' = "exit"
    /\ UNCHANGED <<script, input, workers, uncaught, runner_vars>>
    /\ UNCHANGED <<mode, workers_min, workers_max, children, poll_vars, out_dir, rows>>

\* ------------------------------------------------------------ specification
\* The orchestrator's state while a runner is run on its own.
BenchIdle ==
    /\ mode = None
    /\ workers_min = 0
    /\ workers_max = 0
    /\ children = <<>>
    /\ perf_counter = 0
    /\ next_tick = 0
    /\ heartbeats = <<>>
    /\ out_dir = <<>>
    /\ rows = <<>>
    /\ summary_out = Absent

InitMain ==
    /\ script = "main.py"
    /\ input \in SeqsUpTo(Lines, MaxUnits)
    /\ workers \in {Max(1, w) : w \in 0..MaxWorkers}
    /\ pc = "start"
    /\ units = <<>>
    /\ fut = <<>>
    /\ results = <<>>
    /\ per_file = <<>>
    /\ total = <<>>
    /\ out_file \in {Absent, Stale}
    /\ exit_code = None
    /\ uncaught = None
    /\ BenchIdle

NextMain ==
    \/ MainStart
    \/ Submit
    \/ WorkerStart
    \/ \E i \in 1..MaxUnits + 1 : FetchDone(i)
    \/ \E i \in 1..MaxUnits + 1 : MainCollect(i)
    \/ MainRunReturn
    \/ MainWrite

SpecMain == InitMain /\ [][NextMain]_vars

InitCpu ==
    /\ script = "cpu_main.py"
    /\ input \in DirInputs \cup FileInputs
    /\ workers \in {Max(1, w) : w \in 0..MaxWorkers}
    /\ pc = "start"
    /\ units = <<>>
    /\ fut = <<>>
    /\ results = <<>>
    /\ per_file = <<>>
    /\ total = <<>>
    /\ out_file \in {Absent, Stale}
    /\ exit_code = None
    /\ uncaught = None
    /\ BenchIdle

NextCpu ==
    \/ CpuStart
    \/ Submit
    \/ WorkerStart
    \/ \E i \in 1..MaxUnits + 1 : CountDone(i)
    \/ \E i \in 1..MaxUnits + 1 : CpuCollect(i)
    \/ CpuRunReturn
    \/ CpuRaise
    \/ CpuWrite

SpecCpu == InitCpu /\ [][NextCpu]_vars

InitBench ==
    /\ script = "bench_workers.py"
    /\ input \in [min : 0..MaxWorkers, max : 0..MaxWorkers,
                 quiet : BOOLEAN, progress_interval : ProgressIntervals]
    /\ mode \in {"cpu", "crawler"}
    /\ workers = 0
    /\ workers_min = 0
    /\ workers_max = 0
    /\ pc = "start"
    /\ children = <<>>
    /\ perf_counter = 0
    /\ next_tick = 0
    /\ heartbeats = <<>>
    /\ out_dir = [w \in 1..MaxWorkers |-> Absent]
    /\ rows = <<>>
    /\ summary_out = Absent
    /\ exit_code = None
    /\ uncaught = None
    /\ units = <<>>
    /\ fut = <<>>
    /\ results = <<>>
    /\ per_file = <<>>
    /\ total = <<>>
    /\ out_file = Absent

NextBench ==
    \/ BenchStart
    \/ BenchLaunch
    \/ ChildExit
    \/ BenchPoll
    \/ BenchPollExit
    \/ BenchLoad
    \/ BenchSummary

SpecBench == InitBench /\ [][NextBench]_vars

\* The orchestrator is one sequential process that is always scheduled:
\* each of its steps is taken once it stays possible.  Nothing makes a
\* child process end, so ChildExit carries no fairness.
BenchFair ==
    /\ WF_vars(BenchStart)
    /\ WF_vars(BenchLaunch)
    /\ WF_vars(BenchPoll)
    /\ WF_vars(BenchPollExit)
    /\ WF_vars(BenchLoad)
    /\ WF_vars(BenchSummary)

SpecBenchLive == InitBench /\ [][NextBench]_vars /\ BenchFair

Init == InitMain \/ InitCpu \/ InitBench
Next == NextMain \/ NextCpu \/ NextBench
Spec == Init /\ [][Next]_vars

\* A specification of the two runners alone.
InitRunner == InitMain \/ InitCpu
NextRunner == NextMain \/ NextCpu
SpecRunner == InitRunner /\ [][NextRunner]_vars

\* ------------------------------------------------------------------ claims
Written == out_file \notin {Absent, Stale}
Done(i) == i \in DOMAIN fut /\ fut[i].st \in {"finished", "yielded"}
IsResult(v) == "raised" \notin DOMAIN v
CountIn(s, x) == Cardinality({i \in DOMAIN s : s[i] = x})

\* C1: in the I/O pool no fetch outcome aborts the run: every finished
\* future holds a FetchResult for its own URL, which is ok exactly when that
\* URL's own request was answered, and run() returns one result per
\* submitted URL: the results are the futures' values, each once.
C1_FailureIsolation ==
    script = "main.py" =>
        /\ pc # "abort"
        /\ uncaught = None
        /\ \A i \in DOMAIN fut : Done(i) =>
              /\ IsResult(fut[i].val)
              /\ fut[i].val.url = units[i]
              /\ fut[i].val.ok <=> (fut[i].net = Some("response"))
        /\ (pc \in {"returned", "exit"} /\ units # <<>>) =>
              /\ Len(fut) = Len(units)
              /\ Len(results) = Len(units)
              /\ \A i \in DOMAIN fut :
                    CountIn(results, fut[i].val)
                      = Cardinality({j \in DOMAIN fut : fut[j].val = fut[i].val})

\* One URL failed with an error outside the HTTPError / URLError classes while
\* the other was answered, and both results were returned.
C1_Witness ==
    /\ script = "main.py"
    /\ pc = "returned"
    /\ Len(results) = 2
    /\ \E i, j \in DOMAIN fut :
          /\ fut[i].net = Some("bad_url") /\ ~fut[i].val.ok
          /\ fut[j].net = Some("response") /\ fut[j].val.ok

\* A line that names a URL: its first non-blank character exists, not "#".
NonIgnored(line) ==
    \E k \in DOMAIN line :
        /\ line[k] \notin {" ", "#"}
        /\ \A j \in 1..(k - 1) : line[j] = " "

\* C2: in every document the I/O runner writes, ok + failed = total_urls and
\* total_urls is the number of non-ignored lines of the input listing.
C2_OkPlusFailed ==
    (script = "main.py" /\ Written) =>
        /\ out_file.meta.ok + out_file.meta.failed = out_file.meta.total_urls
        /\ out_file.meta.total_urls
             = Cardinality({i \in DOMAIN input : NonIgnored(input[i])})

\* A document with one successful and one HTTP-failed fetch.
C2_Witness ==
    /\ script = "main.py"
    /\ Written
    /\ out_file.meta.ok = 1
    /\ out_file.meta.failed = 1
    /\ \E i \in DOMAIN results : results[i].status = Some(404)

\* C3 (as claimed): a fetch that times out, while connecting or while the
\* response is read, yields a failed result of the URLError kind.
C3_TimeoutIsTransportError ==
    script = "main.py" =>
        \A i \in DOMAIN fut :
            (Done(i) /\ fut[i].net \in {Some("connect_timeout"), Some("read_timeout")}) =>
                /\ IsResult(fut[i].val)
                /\ ~fut[i].val.ok
                /\ fut[i].val.error[1][1] = "URLError"

SumCounts(c) == SumSeq([i \in DOMAIN c |-> c[i][2]])

\* C4: conservation in CPU mode: the table's counts always add up to the
\* token counts of the files merged so far, and in the written document
\* total_tokens is the sum of the per-file token counts and of the table.
C4_Conservation ==
    script = "cpu_main.py" =>
        /\ SumCounts(total) = SumSeq([i \in DOMAIN per_file |-> per_file[i].tokens])
        /\ Written =>
              /\ out_file.meta.total_tokens
                   = SumSeq([i \in DOMAIN out_file.per_file |-> out_file.per_file[i].tokens])
              /\ out_file.meta.total_tokens = SumCounts(total)

\* Two files sharing a token were merged and the document written.
C4_Witness ==
    /\ script = "cpu_main.py"
    /\ Written
    /\ Len(per_file) = 2
    /\ out_file.meta.total_tokens >= 4
    /\ \E i \in DOMAIN total : total[i][2] >= 2

\* The frequency table as a mapping token -> count (a dict compares so).
TableMap(c) == [k \in Keys(c) |-> Count(c, k)]

\* The tokens of a text, counted without the pool: lower-cased word runs.
WordsOf(file) == FindWords([i \in DOMAIN file.text |-> Lower(file.text[i])], <<>>)
Occurrences(tokens, k) == Cardinality({i \in DOMAIN tokens : tokens[i] = k})
InputTokens == UNION {{WordsOf(input.content[units[i]])[j] :
                          j \in DOMAIN WordsOf(input.content[units[i]])} :
                      i \in DOMAIN units}
InputTable ==
    [k \in InputTokens |->
        SumSeq([i \in DOMAIN units |-> Occurrences(WordsOf(input.content[units[i]]), k)])]

\* C5: the result of a CPU run is a function of the input files alone: for
\* every worker count and every schedule the table is the input's token
\* counts and unique_tokens is the number of distinct tokens of the input.
C5_WorkerCountIndependent ==
    (script = "cpu_main.py" /\ pc \in {"returned", "exit"} /\ uncaught = None
        /\ units # <<>>) =>
        /\ TableMap(total) = InputTable
        /\ Written => out_file.meta.unique_tokens = Cardinality(InputTokens)

\* Two workers, and the second file's result arrived first: the table holds
\* the tokens in another order than a one-worker run would.
C5_Witness ==
    /\ script = "cpu_main.py"
    /\ Written
    /\ workers = 2
    /\ Len(units) = 2
    /\ total # <<>>
    /\ total[1][1] \notin Keys(fut[1].val.counts)
    /\ \E k \in Keys(fut[1].val.counts) : k \in Keys(fut[2].val.counts)

Perms(n) == {p \in [1..n -> 1..n] : \A i, j \in 1..n : i # j => p[i] # p[j]}

RECURSIVE MergeAll(_, _)
MergeAll(tot, maps) ==
    IF maps = <<>> THEN tot
    ELSE MergeAll(_merge_counts(tot, Head(maps)), Tail(maps))

\* C6: merging the per-file maps collected so far into an empty table with
\* _merge_counts gives, in every permutation, the table the run has built.
C6_MergeCommutes ==
    script = "cpu_main.py" =>
        \A p \in Perms(Len(per_file)) :
            TableMap(MergeAll(<<>>, [i \in DOMAIN per_file |-> per_file[p[i]].counts]))
              = TableMap(total)

\* Two maps with a common token of different counts have been merged.
C6_Witness ==
    /\ script = "cpu_main.py"
    /\ Len(per_file) = 2
    /\ \E k \in Keys(per_file[1].counts) :
          /\ k \in Keys(per_file[2].counts)
          /\ Count(per_file[1].counts, k) # Count(per_file[2].counts, k)

ChildFailed == proc # None /\ proc.returncode \notin {None, Some(0)}

\* C7: once a child has exited with a non-zero status the sweep is over: the
\* orchestrator only leaves its poll loop to end with a non-zero status, no
\* child runs for a later worker count and no summary is written.
C7_AbortOnChildFailure ==
    (script = "bench_workers.py" /\ ChildFailed) =>
        /\ pc \in {"poll", "exit"}
        /\ workers = proc.workers
        /\ \A w \in DOMAIN out_dir : w > proc.workers => out_dir[w] = Absent
        /\ summary_out = Absent
        /\ exit_code # Some(0)
        /\ pc = "exit" => (exit_code = Some(1) /\ uncaught = Some("SystemExit"))

\* The child for a worker count that is not the last one exited with 2 and
\* the orchestrator has ended.
C7_Witness ==
    /\ script = "bench_workers.py"
    /\ ChildFailed
    /\ proc.returncode = Some(2)
    /\ proc.workers < workers_max
    /\ pc = "exit"

SummaryWritten == summary_out # Absent

\* C8 (as claimed): every row's speedup_vs_1 is elapsed_ms of the 1-worker
\* run over the row's elapsed_ms, and is 1.0 on the 1-worker row.
C8_SpeedupVsOneWorker ==
    (script = "bench_workers.py" /\ SummaryWritten) =>
        \A i \in DOMAIN summary_out.rows :
            LET r == summary_out.rows[i] IN
            /\ r.speedup_vs_1 # None
            /\ \E j \in DOMAIN summary_out.rows :
                  /\ summary_out.rows[j].workers = 1
                  /\ r.speedup_vs_1[1][1] * r.elapsed_ms
                       = summary_out.rows[j].elapsed_ms * r.speedup_vs_1[1][2]
            /\ r.workers = 1 => r.speedup_vs_1[1][1] = r.speedup_vs_1[1][2]

ExpectedFields ==
    IF mode = "cpu"
    THEN {"total_elapsed_ms", "files", "total_tokens", "unique_tokens"}
    ELSE {"total_elapsed_ms", "total_urls", "ok", "failed", "avg_elapsed_ms"}

WellFormed(doc) ==
    /\ doc # Absent
    /\ doc.json = "object"
    /\ "meta" \in DOMAIN doc.data
    /\ doc.data.meta.t = "dict"
    /\ ExpectedFields \subseteq DOMAIN doc.data.meta.v

\* C9 (as claimed): a row is only ever built from a document that holds a
\* meta object with the expected fields.
C9_NoDefaultedRow ==
    script = "bench_workers.py" =>
        \A i \in DOMAIN rows : WellFormed(out_dir[rows[i].workers])

\* The input listing resolves to no unit: no line names a URL, or the
\* directory holds no .txt file.
ZeroUnits ==
    IF script = "main.py" THEN \A i \in DOMAIN input : ~NonIgnored(input[i])
    ELSE /\ input.kind = "dir"
         /\ \A i \in DOMAIN input.walk : input.walk[i][2] \notin {".txt", ".TXT"}

\* C10: a runner whose listing resolves to no unit exits with 2, having
\* submitted nothing to a pool and left the output path as it was.
C10_EmptyListing ==
    (script \in {"main.py", "cpu_main.py"} /\ ZeroUnits /\ pc # "start") =>
        /\ pc = "exit"
        /\ exit_code = Some(2)
        /\ fut = <<>>
        /\ ~Written

\* A directory that holds only a file of another extension: exit 2, and the
\* document of an earlier run is still there.
C10_Witness ==
    /\ script = "cpu_main.py"
    /\ input.kind = "dir"
    /\ input.walk # <<>>
    /\ ZeroUnits
    /\ exit_code = Some(2)
    /\ out_file = Stale

\* C11 (as claimed): once the coordinator has observed a worker's error
\* (fut.result() raised), no queued file is handed to a worker any more, no
\* failed file is run again, no document is written and the runner ends
\* with a non-zero status.
C11_FailFast ==
    [][(script = "cpu_main.py" /\ pc = "abort") =>
          /\ \A i \in DOMAIN fut :
                /\ fut[i].st = "pending" => fut'[i].st = "pending"
                /\ fut[i].st \in {"finished", "yielded"} => fut'[i].val = fut[i].val
          /\ out_file' = out_file
          /\ pc' = "exit" => exit_code' \notin {None, Some(0)}]_vars

Alive == {i \in DOMAIN children : children[i].returncode = None}

\* C13: the sweep is sequential and ascending: at most one child process is
\* alive at any moment; the children were started for the worker counts
\* workers_min, workers_min + 1, ... in this order, one each; and when a
\* child was started every child before it had exited with status 0 and
\* had its row in the row list.
C13_SequentialAscending ==
    script = "bench_workers.py" =>
        /\ Cardinality(Alive) <= 1
        /\ \A i \in DOMAIN children :
              /\ children[i].workers = workers_min + i - 1
              /\ i < Len(children) =>
                    /\ children[i].returncode = Some(0)
                    /\ i \in DOMAIN rows
                    /\ rows[i].workers = children[i].workers

\* The child for the second worker count is running; the first exited
\* with 0 and has its row.
C13_Witness ==
    /\ script = "bench_workers.py"
    /\ Len(children) = 2
    /\ children[1].returncode = Some(0)
    /\ children[2].returncode = None
    /\ children[2].workers = children[1].workers + 1
    /\ Len(rows) = 1

\* C14: every finished fetch is classified by what the network did: an
\* HTTP error status gives a failed result carrying that status code and
\* the HTTPError kind; a transport failure (refused, timed out) gives a
\* failed result without a status; a response gives ok with no error.  The
\* document of a listing with one 404 and one answered URL says ok = 1,
\* failed = 1, total_urls = 2.
C14_Classification ==
    script = "main.py" =>
        /\ \A i \in DOMAIN fut : Done(i) =>
              /\ IsResult(fut[i].val)
              /\ fut[i].net = Some("http_404") =>
                    /\ ~fut[i].val.ok
                    /\ fut[i].val.status = Some(404)
                    /\ fut[i].val.error[1][1] = "HTTPError"
              /\ fut[i].net \in {Some("conn_refused"), Some("connect_timeout"),
                                 Some("read_timeout")} =>
                    /\ ~fut[i].val.ok
                    /\ fut[i].val.status = None
                    /\ fut[i].val.error # None
              /\ fut[i].net = Some("response") =>
                    /\ fut[i].val.ok
                    /\ fut[i].val.error = None
        /\ (Written /\ Len(fut) = 2
               /\ {fut[i].net : i \in DOMAIN fut} = {Some("http_404"), Some("response")}) =>
              /\ out_file.meta.ok = 1
              /\ out_file.meta.failed = 1
              /\ out_file.meta.total_urls = 2

\* The document of a two-URL listing: one URL answered 404, one answered.
C14_Witness ==
    /\ script = "main.py"
    /\ Written
    /\ Len(fut) = 2
    /\ {fut[i].net : i \in DOMAIN fut} = {Some("http_404"), Some("response")}
    /\ \E i \in DOMAIN out_file.results :
          /\ out_file.results[i].status = Some(404)
          /\ ~out_file.results[i].ok

\* The worker counts of the sweep: range(workers_min, workers_max + 1).
SweepRange == IF pc = "start" THEN {} ELSE workers_min..workers_max

\* The state of worker count w in the sweep, read off the orchestrator's
\* position: PENDING until the loop reaches w; LAUNCHED when the loop's
\* iteration for w has begun; RUNNING once its child is started; COMPLETED
\* when the iteration has ended; FAILED when SystemExit was raised in it.
StateOf(w) ==
    IF pc = "start" \/ workers < w THEN "PENDING"
    ELSE IF workers > w \/ pc = "summarize" \/ (pc = "exit" /\ exit_code = Some(0))
    THEN "COMPLETED"
    ELSE IF pc = "launch" THEN "LAUNCHED"
    ELSE IF pc = "exit" /\ uncaught = Some("SystemExit") THEN "FAILED"
    ELSE "RUNNING"

Transitions ==
    {<<"PENDING", "LAUNCHED">>, <<"LAUNCHED", "RUNNING">>,
     <<"RUNNING", "COMPLETED">>, <<"RUNNING", "FAILED">>}

ChildOf(w) == {i \in DOMAIN children : children[i].workers = w}
RowsOf(w) == {i \in DOMAIN rows : rows[i].workers = w}

\* C15: every worker count of the range changes state only along PENDING ->
\* LAUNCHED -> RUNNING -> {COMPLETED | FAILED}; a COMPLETED count has a
\* child that exited with 0 and a document that was read back, a FAILED
\* count a child that exited with another status; the row list holds one
\* row for each COMPLETED count, in order, and no other row.
C15_StateMachine ==
    /\ [](script = "bench_workers.py" =>
            \A w \in SweepRange :
               /\ StateOf(w) = "COMPLETED" =>
                     /\ \A i \in ChildOf(w) : children[i].returncode = Some(0)
                     /\ ChildOf(w) # {}
                     /\ IsResult(_load_json(out_dir[w]))
               /\ StateOf(w) = "FAILED" =>
                     /\ \A i \in ChildOf(w) : children[i].returncode \notin {None, Some(0)}
                     /\ ChildOf(w) # {}
               /\ StateOf(w) = "COMPLETED" <=> RowsOf(w) # {}
               /\ Cardinality(RowsOf(w)) <= 1)
    /\ [](script = "bench_workers.py" =>
            /\ \A i \in DOMAIN rows : rows[i].workers \in SweepRange
            /\ \A i, j \in DOMAIN rows : i < j => rows[i].workers < rows[j].workers)
    /\ [][script = "bench_workers.py" =>
            \A w \in SweepRange' :
               \/ StateOf(w)' = StateOf(w)
               \/ <<StateOf(w), StateOf(w)'>> \in Transitions]_vars

\* The first worker count is COMPLETED and the second FAILED.
C15_Witness ==
    /\ script = "bench_workers.py"
    /\ workers_min = 1
    /\ StateOf(1) = "COMPLETED"
    /\ StateOf(2) = "FAILED"
    /\ Len(rows) = 1

\* C16: a written summary holds one row for each worker count from
\* max(1, min) to max(max(1, min), max), in ascending order, and names that
\* range in its meta; it is written in the orchestrator's last step, after
\* the child of the last worker count exited with 0 and got its row.
C16_SummaryRows ==
    /\ [](script = "bench_workers.py" =>
            /\ SummaryWritten <=> (pc = "exit" /\ exit_code = Some(0))
            /\ SummaryWritten =>
                  LET lo == Max(1, input.min)
                      hi == Max(lo, input.max) IN
                  /\ summary_out.meta.workers_min = lo
                  /\ summary_out.meta.workers_max = hi
                  /\ Len(summary_out.rows) = hi - lo + 1
                  /\ \A i \in DOMAIN summary_out.rows :
                        summary_out.rows[i].workers = lo + i - 1
                  /\ Len(rows) = Len(summary_out.rows)
                  /\ proc.workers = hi
                  /\ proc.returncode = Some(0))
    /\ [][(script = "bench_workers.py" /\ summary_out' # summary_out) =>
            (summary_out = Absent /\ pc = "summarize" /\ pc' = "exit")]_vars

\* A summary of a sweep whose range was clamped: --min 0 --max 2 gave the
\* rows for 1 and 2 workers.
C16_Witness ==
    /\ script = "bench_workers.py"
    /\ SummaryWritten
    /\ input.min = 0
    /\ input.max = 2
    /\ Len(summary_out.rows) = 2
    /\ summary_out.rows[1].workers = 1
    /\ summary_out.rows[2].workers = 2

\* C17: the list run() returns is in non-decreasing URL order (str order),
\* whatever order the worker threads completed in.
C17_ResultsSorted ==
    (script = "main.py" /\ pc \in {"returned", "exit"}) =>
        \A i, j \in DOMAIN results :
            i < j => ~StrLess(results[j].url, results[i].url)

\* The listing named "b" before "a" and one worker fetched them in that
\* order; the returned list begins with "a".
C17_Witness ==
    /\ script = "main.py"
    /\ pc = "returned"
    /\ workers = 1
    /\ units = << <<"b">>, <<"a">> >>
    /\ Len(results) = 2
    /\ results[1].url = <<"a">>
    /\ results[2].url = <<"b">>

\* C18: in a written CPU document per_file is in non-decreasing path order
\* and top_words is a prefix of the table's ranking: 1 or 2 entries (K, or
\* all when the table is smaller), each an entry of the merged table, in
\* non-increasing count order, equal counts in the order the tokens entered
\* the table, and no token left out ranks before one that is listed.
C18_TopWordsOrder ==
    (script = "cpu_main.py" /\ Written) =>
        LET top == out_file.top_words
            pf == out_file.per_file
            Before(i, j) ==    \* table entry i ranks before table entry j
                \/ total[i][2] > total[j][2]
                \/ total[i][2] = total[j][2] /\ i < j
        IN
        /\ \A i, j \in DOMAIN pf : i < j => ~StrLess(pf[j].path, pf[i].path)
        /\ Len(top) \in {IF Len(total) < k THEN Len(total) ELSE k : k \in {1, 2}}
        /\ \A t \in DOMAIN top :
              /\ top[t][1] \in Keys(total)
              /\ top[t] = total[Get(total, top[t][1])]
        /\ \A s, t \in DOMAIN top :
              s < t => Before(Get(total, top[s][1]), Get(total, top[t][1]))
        /\ \A t \in DOMAIN top : \A j \in DOMAIN total :
              total[j][1] \notin {top[s][1] : s \in DOMAIN top}
                 => Before(Get(total, top[t][1]), j)

\* Two files were merged, the second one's result first, and the two
\* listed tokens have the same count: the tie had to be broken.
C18_Witness ==
    /\ script = "cpu_main.py"
    /\ Written
    /\ Len(per_file) = 2
    /\ Len(out_file.top_words) = 2
    /\ out_file.top_words[1][2] = out_file.top_words[2][2]
    /\ Len(total) > 2
    /\ total[1][1] \notin Keys(fut[1].val.counts)

\* The payload of a run in which the results arrived in listing order (as
\* with one worker): the futures' values taken in submission order.
InOrderTable == MergeAll(<<>>, [i \in DOMAIN fut |-> fut[i].val.counts])
InOrderFiles ==
    LET pf == [i \in DOMAIN fut |-> fut[i].val] IN
    LET s == SortByKey(pf, [i \in DOMAIN pf |-> pf[i].path]) IN
    [i \in DOMAIN s |-> [path |-> s[i].path, tokens |-> s[i].tokens]]
InOrderResults ==
    LET rs == [i \in DOMAIN fut |-> fut[i].val] IN
    SortByKey(rs, [i \in DOMAIN rs |-> rs[i].url])

\* C19 (as claimed): the payload of a written document does not depend on
\* the order in which the workers' results arrived: it is the payload of
\* the run in which the same per-unit results arrive in listing order.
C19_ArrivalOrderHidden ==
    /\ (script = "cpu_main.py" /\ Written) =>
          /\ out_file.per_file = InOrderFiles
          /\ out_file.top_words = most_common(InOrderTable, Len(out_file.top_words))
    /\ (script = "main.py" /\ Written) =>
          out_file.results = InOrderResults

\* C20: in the poll loop every turn that finds the child alive is followed
\* by a sleep of at least the poll interval before the next check; a
\* heartbeat is printed only with progress enabled and only in a turn that
\* found the child alive; the first heartbeat comes no sooner than one
\* heartbeat interval after the start and consecutive heartbeats are at
\* least one heartbeat interval apart; the heartbeat interval is at least
\* the poll interval; with --quiet no heartbeat is printed.
C20_PollAndHeartbeat ==
    /\ [](script = "bench_workers.py" =>
            /\ interval >= SleepTicks
            /\ ~progress => heartbeats = <<>>
            /\ \A k \in DOMAIN heartbeats :
                  heartbeats[k] >= (IF k = 1 THEN 0 ELSE heartbeats[k - 1]) + interval)
    /\ [][(script = "bench_workers.py" /\ pc = "poll" /\ pc' = "poll"
             /\ children' = children) =>
            perf_counter' >= perf_counter + SleepTicks]_vars
    /\ [][(script = "bench_workers.py" /\ Len(heartbeats') > Len(heartbeats)) =>
            /\ progress
            /\ pc = "poll"
            /\ proc.returncode = None
            /\ Len(heartbeats') = Len(heartbeats) + 1]_vars

\* Two heartbeats have been printed for a child that is still running.
C20_Witness ==
    /\ script = "bench_workers.py"
    /\ pc = "poll"
    /\ progress
    /\ proc.returncode = None
    /\ Len(heartbeats) = 2
    /\ heartbeats[2] - heartbeats[1] >= interval

\* C21: if every child that is started ends at some time, the orchestrator
\* ends: with status 0 and the summary written, or with a failure and no
\* summary.  While a child is alive the orchestrator is in the poll loop of
\* that child's worker count and no other child is alive; so if a child
\* never ends, the orchestrator polls it forever: it starts no further
\* child, writes no summary and does not end.
C21_SweepTermination ==
    /\ ([](Alive # {} => <>(Alive = {}))) =>
          <>(/\ pc = "exit"
             /\ \/ exit_code = Some(0) /\ SummaryWritten
                \/ exit_code = Some(1) /\ ~SummaryWritten)
    /\ [](Alive # {} =>
            /\ pc = "poll"
            /\ Alive = {Len(children)}
            /\ workers = proc.workers
            /\ exit_code = None
            /\ ~SummaryWritten)
    /\ [][(Alive # {} /\ Alive' = Alive) =>
            /\ children' = children
            /\ workers' = workers
            /\ rows' = rows]_vars

\* The first worker count is completed and the child of the second has
\* been polled up to the last clock reading followed, still alive.
C21_Witness ==
    /\ script = "bench_workers.py"
    /\ pc = "poll"
    /\ Len(children) = 2
    /\ Len(rows) = 1
    /\ proc.returncode = None
    /\ perf_counter > MaxClock

Aggregate == <<results, per_file, total>>

\* The coordinator takes the value of the one finished future i.
Collects(i) ==
    /\ pc = "collect"
    /\ fut[i].st = "finished"
    /\ fut' = [fut EXCEPT ![i].st = "yielded"]
    /\ IsResult(fut[i].val)

SameElements(s, t) ==
    /\ Len(s) = Len(t)
    /\ \A k \in DOMAIN s : CountIn(t, s[k]) = CountIn(s, s[k])

\* C22: the aggregates of a pool (results; per_file and total) change only
\* in a step of the coordinator.  While the pool is open such a step takes
\* the value of exactly one future that has finished and appends it to the
\* list (and, in the CPU pool, merges its counts into the table); a step
\* in which a worker starts or finishes leaves the aggregates as they are.
\* The one other change is the sort when run() returns, with every worker
\* done: it reorders the list and adds or drops nothing.
C22_CoordinatorOnly ==
    [][(script \in {"main.py", "cpu_main.py"} /\ Aggregate' # Aggregate) =>
          \/ \E i \in DOMAIN fut :
                /\ Collects(i)
                /\ IF script = "main.py"
                   THEN /\ results' = Append(results, fut[i].val)
                        /\ UNCHANGED <<per_file, total>>
                   ELSE /\ per_file' = Append(per_file, fut[i].val)
                        /\ total' = _merge_counts(total, fut[i].val.counts)
                        /\ results' = results
          \/ /\ pc = "collect"
             /\ pc' = "returned"
             /\ fut' = fut
             /\ \A i \in DOMAIN fut : fut[i].st = "yielded"
             /\ SameElements(results, results')
             /\ SameElements(per_file, per_file')
             /\ total' = total]_vars

\* The coordinator has appended one result while a worker is still busy
\* with another URL.
C22_Witness ==
    /\ script = "main.py"
    /\ pc = "collect"
    /\ Len(results) = 1
    /\ Running # {}

\* The stages of a task, in order.
Stage(st) ==
    CASE st = "pending" -> 0 [] st = "running" -> 1 [] st = "finished" -> 2
      [] st = "yielded" -> 3

\* C23: the pool holds one task per unit of the listing, task i for unit i
\* (a URL named twice is two units); a task only moves forward through
\* pending, running, finished, collected, one stage at a time, and its
\* value is set once, by the worker that ran it, for its own unit; when the
\* runner has ended every unit has been processed, and in a run without
\* error the collected results are as many as the units.
C23_ExactlyOnce ==
    /\ [](script \in {"main.py", "cpu_main.py"} =>
            /\ Len(fut) <= Len(units)
            /\ pc \notin {"start", "submit"} => Len(fut) = Len(units)
            /\ \A i \in DOMAIN fut :
                  (Done(i) /\ IsResult(fut[i].val)) =>
                      units[i] = (IF script = "main.py" THEN fut[i].val.url
                                  ELSE fut[i].val.path)
            /\ pc \in {"returned", "exit"} => \A i \in DOMAIN units : Done(i)
            /\ (pc \in {"returned", "exit"} /\ uncaught = None) =>
                  /\ \A i \in DOMAIN fut : fut[i].st = "yielded"
                  /\ Len(IF script = "main.py" THEN results ELSE per_file) = Len(units))
    /\ [][(script = "main.py" \/ script = "cpu_main.py") =>
            /\ \A i \in DOMAIN fut :
                  /\ i \in DOMAIN fut'
                  /\ Stage(fut'[i].st) \in {Stage(fut[i].st), Stage(fut[i].st) + 1}
                  /\ Stage(fut[i].st) >= 2 => fut'[i].val = fut[i].val
            /\ units # <<>> => units' = units]_vars

\* A listing that names the same URL twice has ended: two tasks, two
\* results.
C23_Witness ==
    /\ script = "main.py"
    /\ pc = "exit"
    /\ Len(units) = 2
    /\ units[1] = units[2]
    /\ Len(fut) = 2
    /\ Len(results) = 2

\* What a document holds besides its payload: the meta entry, if any.
MetaPart(data) == [k \in {"meta"} \cap DOMAIN data |-> data[k]]

RowOf(data, w, wall_ms) ==
    IF mode = "cpu" THEN CpuRow(data, w, wall_ms) ELSE CrawlerRow(data, w, wall_ms)

\* C24 (as claimed): every row is determined by the meta object of the
\* document it was built from: it is the row built from that meta alone,
\* whatever time the orchestrator measured for the child.
C24_RowFromMetaAlone ==
    script = "bench_workers.py" =>
        \A i \in DOMAIN rows :
            LET data == _load_json(out_dir[rows[i].workers]).data IN
            \A wall_ms \in 1..MaxRunMs :
                rows[i] = RowOf(MetaPart(data), rows[i].workers, wall_ms)

\* C25: in a pool of N workers at most N units are being processed at any
\* moment; once run() has returned, and so whenever the document exists,
\* every submitted unit has finished, none is queued and no worker runs.
C25_BoundedAndDrained ==
    script \in {"main.py", "cpu_main.py"} =>
        /\ Cardinality(Running) <= workers
        /\ (pc \in {"returned", "exit"} \/ Written) =>
              /\ Running = {}
              /\ Pending = {}
              /\ Len(fut) = Len(units)
              /\ \A i \in DOMAIN fut : Done(i)
        /\ Written => pc = "exit"

\* One worker is busy and a second unit waits in the queue.
C25_Witness ==
    /\ script \in {"main.py", "cpu_main.py"}
    /\ workers = 1
    /\ Cardinality(Running) = 1
    /\ Pending # {}
====
